---- MODULE Spec2Model ----
(***************************************************************************)
(* Model of src/app.py: a Flask service with a process-wide cache of       *)
(* Whisper models (loaded_models, guarded by model_lock) and the           *)
(* /transcribe and /health request handlers, run by concurrent worker      *)
(* threads.                                                                *)
(***************************************************************************)
EXTENDS Integers, Sequences, FiniteSets, Bags, TLC

\* ------------------------------------------------------------------ bounds
\* Worker threads handling requests concurrently.
NumThreads == 2
\* Requests received in one behaviour, over all threads.
MaxRequests == 2

\* --------------------------------------------------------------- constants
\* app.py:11
ALLOWED_MODELS ==
    {"tiny.en", "tiny", "base.en", "base", "small.en", "small",
     "medium.en", "medium", "large", "large-v1", "large-v2", "large-v3"}
\* app.py:12
DEFAULT_MODEL == "base"

\* Python's None, as a model instance (instances are 1, 2, ...).
None == 0
\* Python's None, as a temporary file path (paths are <<n, suffix>>).
NoPath == <<>>
\* No response determined yet.
NoResponse == [status |-> 0]
\* threading.Lock is either locked or unlocked; it records no owner.
Unlocked == FALSE
Locked == TRUE

\* ------------------------------------------------------------------ inputs
\* request.form: a mapping with or without the field model_name.
FormWith(name) == [k \in {"model_name"} |-> name]
FormWithout == [k \in {} |-> ""]
\* The model_name values callers send: two allow-listed, one not.
SentNames == {"tiny", "base", "not-a-real-model"}
Forms == {FormWithout} \cup {FormWith(n) : n \in SentNames}

\* request.files: a mapping with or without the part audio_file; a part
\* carries a filename, a sequence of characters.  The upload is fixed when
\* the request is sent, and nothing depends on it before app.py:59; the model
\* resolves it there, and holds it as unread until then.
FilesWith(filename) == [k \in {"audio_file"} |-> [filename |-> filename]]
FilesWithout == [k \in {} |-> [filename |-> <<>>]]
Unread == [k \in {"unread"} |-> [filename |-> <<>>]]
SentFilenames == {<<>>, <<"a", ".", "w">>}
Uploads == {FilesWithout} \cup {FilesWith(f) : f \in SentFilenames}

\* result["text"] of a transcription.
Texts == {"", "hello"}

\* -------------------------------------------------------------------- state
\* The worker threads carry no identity the code reads, so the requests in
\* progress are kept as a bag of records, one record per busy thread.
VARIABLES
    loaded_models,      \* app.py:17, identifier -> model instance
    model_lock,         \* app.py:18
    nextInst,           \* identity of the next object whisper.load_model builds
    files,              \* temporary files that exist in the filesystem
    reqs,               \* the requests in progress, one per busy thread
    loadCalls,          \* identifier -> invocations of whisper.load_model
    loadOk,             \* identifier -> successful completions of it
    loadFail,           \* identifier -> invocations that raised
    returned,           \* identifier -> instances load_whisper_model returned
    lastCalls,          \* identifier -> its last two completed load_whisper_model calls
    received,           \* requests received so far
    twin                \* bookkeeping of the paired-request specification

shared == <<loaded_models, model_lock, nextInst>>
counts == <<loadCalls, loadOk, loadFail, returned, lastCalls>>
vars == <<loaded_models, model_lock, nextInst, files, reqs, loadCalls, loadOk,
          loadFail, returned, lastCalls, received, twin>>

\* A request as transcribe_audio starts on it: its inputs, the handler's
\* locals, and the history of what was done for it.
NewRequest(f) ==
    [pc |-> "start",
     form |-> f,                    \* request.form
     upload |-> Unread,             \* request.files
     actual_model_name |-> "",      \* local of transcribe_audio
     model |-> None,                \* local of transcribe_audio
     temp_audio_path |-> NoPath,    \* local of transcribe_audio
     response |-> NoResponse,       \* what the handler returns
     invoked |-> 0,         \* whisper.load_model invocations by the running call
     atAcquire |-> <<>>,    \* loaded_models when the running call took the lock
     raised |-> FALSE,      \* whisper.load_model raised for this request
     created |-> NoPath,    \* the temporary file created for the upload
     save |-> "none",       \* audio_file.save: none | ok | raise
     transcribe |-> <<"none">>, \* model.transcribe: none | raise | ok, text
     remove |-> "none"]     \* os.remove: none | ok | raise | skipped

\* The paired-request specification keeps the mapping it started from and
\* the outcome of its first request here; the other specifications do not
\* use it.
NoTwin == [reg |-> <<>>, inst |-> 1, first |-> <<>>]

\* The history kept of one completed load_whisper_model call.
NoRecord == [load |-> "none", inst |-> None, invoked |-> 0, changed |-> FALSE]

\* The requests in progress, and the bag with r replaced by r2.
Reqs == BagToSet(reqs)
Replace(r, r2) == (reqs (-) SetToBag({r})) (+) SetToBag({r2})

\* ------------------------------------------------------- Identifier selection
\* request.form.get('model_name', DEFAULT_MODEL), app.py:46
FormGet(f, key, default) == IF key \in DOMAIN f THEN f[key] ELSE default

\* (a selection that passes the raw value on: the change C6 is tested
\* against)
SelectRaw(requested_model_name) == requested_model_name

\* (a selection that falls back to another identifier: the change C7 is
\* tested against)
SelectOtherDefault(requested_model_name) ==
    IF requested_model_name \notin ALLOWED_MODELS
    THEN "tiny"
    ELSE requested_model_name

\* app.py:49-53
SelectModel(requested_model_name) ==
    IF requested_model_name \notin ALLOWED_MODELS
    THEN DEFAULT_MODEL
    ELSE requested_model_name

\* The argument of load_whisper_model at app.py:57
LoadArgument(r) == r.actual_model_name

\* ------------------------------------------------------------------ registry
\* (a lock that never excludes: the change C1 and C2 are tested against)
CanAcquireUnguarded == TRUE

\* `with model_lock:` can be entered, app.py:25
CanAcquire == model_lock = Unlocked

\* (a lookup that never hits: the change C5 is tested against)
InCacheNever(model_name) == FALSE

\* `model_name in loaded_models`, app.py:26
InCache(model_name) == model_name \in DOMAIN loaded_models

\* `loaded_models[model_name] = model_instance`, app.py:36
Store(reg, model_name, model_instance) ==
    [k \in DOMAIN reg \cup {model_name} |->
        IF k = model_name THEN model_instance ELSE reg[k]]

\* (an except branch that caches the failure: the change C3 and C4 are
\* tested against)
AfterFailureCached(reg, model_name) == Store(reg, model_name, None)

\* (an except branch that empties the mapping: the change C18 is tested
\* against)
AfterFailureClears(reg, model_name) == <<>>

\* The mapping after the except branch, app.py:38-40: nothing is stored.
AfterFailure(reg, model_name) == reg

\* The identifiers the requests of the model can select: the histories are
\* kept for these.
Tracked == {SelectModel(FormGet(f, "model_name", DEFAULT_MODEL)) : f \in Forms}

Bump(f, k) == [f EXCEPT ![k] = @ + 1]

\* lastCalls once the call of request r has returned inst with outcome load
\* and left the mapping reg.
Completed(r, load, inst, reg) ==
    [lastCalls EXCEPT
        ![LoadArgument(r)] =
            <<@[2], [load |-> load, inst |-> inst, invoked |-> r.invoked,
                     changed |-> reg # r.atAcquire]>>]

Init ==
    /\ loaded_models = <<>>
    /\ model_lock = Unlocked
    /\ nextInst = 1
    /\ files = {}
    /\ reqs = EmptyBag
    /\ loadCalls = [m \in Tracked |-> 0]
    /\ loadOk = [m \in Tracked |-> 0]
    /\ loadFail = [m \in Tracked |-> 0]
    /\ returned = [m \in Tracked |-> {}]
    /\ lastCalls = [m \in Tracked |-> <<NoRecord, NoRecord>>]
    /\ received = 0
    /\ twin = NoTwin

\* A worker thread is free to take a request.
ThreadFree == BagCardinality(reqs) < NumThreads

\* A request with form f once app.py:46-55 have run: about to call
\* load_whisper_model with the selected identifier.
Selected(f) ==
    [NewRequest(f) EXCEPT
        !.actual_model_name =
            SelectModel(FormGet(f, "model_name", DEFAULT_MODEL)),
        !.pc = "call_load"]

\* transcribe_audio, app.py:46-55: read the field, select the identifier.
Receive(f) ==
    /\ ThreadFree
    /\ received < MaxRequests
    /\ received' = received + 1
    /\ reqs' = reqs (+) SetToBag({Selected(f)})
    /\ UNCHANGED <<shared, files, counts, twin>>

\* load_whisper_model, app.py:25: enter `with model_lock`.
Acquire(r) ==
    /\ r.pc = "call_load"
    /\ CanAcquire
    /\ model_lock' = Locked
    /\ reqs' = Replace(r, [r EXCEPT !.pc = "locked",
                                    !.atAcquire = loaded_models])
    /\ UNCHANGED <<loaded_models, nextInst, files, counts, received, twin>>

\* load_whisper_model, app.py:26-28: the identifier is cached; return it.
CacheHit(r) ==
    /\ r.pc = "locked"
    /\ InCache(LoadArgument(r))
    /\ LET inst == loaded_models[LoadArgument(r)]
       IN  /\ reqs' = Replace(r, [r EXCEPT !.pc = "returned", !.model = inst,
                                           !.invoked = 0,
                                           !.atAcquire = <<>>])
           /\ returned' = [returned EXCEPT ![LoadArgument(r)] =
                              IF inst = None THEN @ ELSE @ \cup {inst}]
           /\ lastCalls' = Completed(r, "hit", inst, loaded_models)
    /\ model_lock' = Unlocked
    /\ UNCHANGED <<loaded_models, nextInst, files, loadCalls, loadOk,
                   loadFail, received, twin>>

\* load_whisper_model, app.py:30-33: not cached; call whisper.load_model.
StartLoad(r) ==
    /\ r.pc = "locked"
    /\ ~InCache(LoadArgument(r))
    /\ loadCalls' = Bump(loadCalls, LoadArgument(r))
    /\ reqs' = Replace(r, [r EXCEPT !.pc = "loading", !.invoked = @ + 1])
    /\ UNCHANGED <<shared, files, loadOk, loadFail, returned, lastCalls,
                   received, twin>>

\* load_whisper_model, app.py:33-37: the engine returns a new instance; it
\* is stored and returned, and the lock is released.
LoadSucceeds(r) ==
    /\ r.pc = "loading"
    /\ loaded_models' = Store(loaded_models, LoadArgument(r), nextInst)
    /\ nextInst' = nextInst + 1
    /\ model_lock' = Unlocked
    /\ reqs' = Replace(r, [r EXCEPT !.pc = "returned", !.model = nextInst,
                                    !.invoked = 0,
                                    !.atAcquire = <<>>])
    /\ loadOk' = Bump(loadOk, LoadArgument(r))
    /\ returned' = [returned EXCEPT ![LoadArgument(r)] = @ \cup {nextInst}]
    /\ lastCalls' = Completed(r, "ok", nextInst, loaded_models')
    /\ UNCHANGED <<files, loadCalls, loadFail, received, twin>>

\* (an except branch that returns with the lock still held: the change C14
\* is tested against)
LoadRaisesKeepsLock(r) ==
    /\ r.pc = "loading"
    /\ reqs' = (reqs (-) SetToBag({r})) (+)
                  SetToBag({[r EXCEPT !.pc = "returned", !.model = 0,
                                      !.raised = TRUE, !.invoked = 0,
                                      !.atAcquire = <<>>]})
    /\ loadFail' = [loadFail EXCEPT ![r.actual_model_name] = @ + 1]
    /\ UNCHANGED <<loaded_models, model_lock, nextInst, files, loadCalls,
                   loadOk, returned, lastCalls, received, twin>>

\* load_whisper_model, app.py:38-40: the engine raises; the exception is
\* logged, None is returned, and the lock is released.
LoadRaises(r) ==
    /\ r.pc = "loading"
    /\ loaded_models' = AfterFailure(loaded_models, LoadArgument(r))
    /\ model_lock' = Unlocked
    /\ reqs' = Replace(r, [r EXCEPT !.pc = "returned", !.model = None,
                                    !.raised = TRUE, !.invoked = 0,
                                    !.atAcquire = <<>>])
    /\ loadFail' = Bump(loadFail, LoadArgument(r))
    /\ lastCalls' = Completed(r, "raise", None, loaded_models')
    /\ UNCHANGED <<nextInst, files, loadCalls, loadOk, returned, received,
                   twin>>

\* ------------------------------------------------------------ transcription
\* os.path.splitext, app.py:74: the extension starts at the last dot of the
\* last path component, unless only dots precede it there.
LastIndex(s, c) ==
    IF \E i \in 1..Len(s) : s[i] = c
    THEN CHOOSE i \in 1..Len(s) :
            s[i] = c /\ \A j \in (i + 1)..Len(s) : s[j] # c
    ELSE 0

Splitext(filename) ==
    LET sep == LastIndex(filename, "/")
        dot == LastIndex(filename, ".")
    IN  IF dot > sep /\ \E j \in (sep + 1)..(dot - 1) : filename[j] # "."
        THEN <<SubSeq(filename, 1, dot - 1), SubSeq(filename, dot, Len(filename))>>
        ELSE <<filename, <<>>>>

\* `suffix or ".tmp"`, app.py:75
SuffixOr(suffix) == IF suffix = <<>> THEN <<".", "t", "m", "p">> ELSE suffix

\* tempfile.NamedTemporaryFile, app.py:75, picks a name no file has; the
\* model takes the first number that names no file, existing or created
\* for a request still in progress.
NamesInUse ==
    {f[1] : f \in files} \cup
    {r.created[1] : r \in {q \in Reqs : q.created # NoPath}}
FreshName == CHOOSE n \in 1..(Cardinality(NamesInUse) + 1) :
                /\ n \notin NamesInUse
                /\ \A m \in 1..(n - 1) : m \in NamesInUse

\* (an except branch that answers as a success: the change C12 is tested
\* against)
InternalSwallowed(cause) == [status |-> 200, text |-> "", model_used |-> cause]

\* jsonify bodies, app.py:60, 64, 70, 87-90, 94
Unavailable(name) == [status |-> 503, error |-> "not available", about |-> name]
NoPart == [status |-> 400, error |-> "no audio file part", about |-> ""]
EmptyName == [status |-> 400, error |-> "empty filename", about |-> ""]
Internal(cause) == [status |-> 500, error |-> "internal error", about |-> cause]
Transcribed(text, name) == [status |-> 200, text |-> text, model_used |-> name]

\* (a check that always reports the model missing: the change C10 is
\* tested against)
ModelAlwaysMissing(r) == TRUE

\* (a check that never reports the model missing: the change C11 is tested
\* against)
ModelNeverMissing(r) == FALSE

\* `if model is None`, app.py:59
ModelMissing(r) == r.model = None

\* transcribe_audio, app.py:59-60: no model; answer 503, whatever the
\* upload u of the request is.
ModelUnavailable(r, u) ==
    /\ r.pc = "returned"
    /\ ModelMissing(r)
    /\ reqs' = Replace(r, [r EXCEPT
                             !.upload = u, !.pc = "done",
                             !.response = Unavailable(r.actual_model_name)])
    /\ UNCHANGED <<shared, files, counts, received, twin>>

\* `'audio_file' not in request.files`, app.py:62
PartMissing(u) == "audio_file" \notin DOMAIN u

\* (a filename check that never fires: the change C9 is tested against)
FilenameNeverEmpty(u) == FALSE

\* `audio_file.filename == ''`, app.py:68
FilenameEmpty(u) == u["audio_file"].filename = <<>>

\* transcribe_audio, app.py:62-70: read request.files and validate the part.
\* With a part and a filename, app.py:72-75 follow: NamedTemporaryFile
\* creates a uniquely named file that is not deleted on close.
ReadUpload(r, u) ==
    /\ r.pc = "returned"
    /\ ~ModelMissing(r)
    /\ IF PartMissing(u)
       THEN /\ reqs' = Replace(r, [r EXCEPT !.upload = u, !.pc = "done",
                                            !.response = NoPart])
            /\ UNCHANGED files
       ELSE IF FilenameEmpty(u)
       THEN /\ reqs' = Replace(r, [r EXCEPT !.upload = u, !.pc = "done",
                                            !.response = EmptyName])
            /\ UNCHANGED files
       ELSE LET path == <<FreshName,
                          SuffixOr(Splitext(u["audio_file"].filename)[2])>>
            IN  /\ files' = files \cup {path}
                /\ reqs' = Replace(r, [r EXCEPT !.upload = u, !.pc = "saving",
                                                !.created = path])
    /\ UNCHANGED <<shared, counts, received, twin>>

\* The value of temp_audio_path once app.py:77 has run.
PathAfterSave(r) == r.created

\* The value of temp_audio_path when audio_file.save raised at app.py:76:
\* the assignment of app.py:77 is not reached.
PathAfterFailedSave(r) == r.temp_audio_path

\* (a handler that calls model.transcribe under model_lock: the change C16
\* is tested against)
SaveOkTakesLock(r) ==
    /\ r.pc = "saving"
    /\ model_lock = FALSE
    /\ model_lock' = TRUE
    /\ reqs' = (reqs (-) SetToBag({r})) (+)
                  SetToBag({[r EXCEPT !.pc = "transcribing", !.save = "ok",
                                      !.temp_audio_path = r.created]})
    /\ UNCHANGED <<loaded_models, nextInst, files, loadCalls, loadOk,
                   loadFail, returned, lastCalls, received, twin>>

\* transcribe_audio, app.py:76-83: the upload is written to the file, the
\* with block closes it, and model.transcribe is called.
SaveOk(r) ==
    /\ r.pc = "saving"
    /\ reqs' = Replace(r, [r EXCEPT !.pc = "transcribing", !.save = "ok",
                                    !.temp_audio_path = PathAfterSave(r)])
    /\ UNCHANGED <<shared, files, counts, received, twin>>

\* transcribe_audio, app.py:76 and 92-94: audio_file.save raises; the
\* except branch answers 500.
SaveRaises(r) ==
    /\ r.pc = "saving"
    /\ reqs' = Replace(r, [r EXCEPT !.pc = "finally", !.save = "raise",
                                    !.temp_audio_path = PathAfterFailedSave(r),
                                    !.response = Internal("save")])
    /\ UNCHANGED <<shared, files, counts, received, twin>>

\* transcribe_audio, app.py:83-90: model.transcribe returns; answer 200.
TranscribeOk(r, text) ==
    /\ r.pc = "transcribing"
    /\ reqs' = Replace(r, [r EXCEPT
                             !.pc = "finally", !.transcribe = <<"ok", text>>,
                             !.response = Transcribed(text, r.actual_model_name)])
    /\ UNCHANGED <<shared, files, counts, received, twin>>

\* transcribe_audio, app.py:83 and 92-94: model.transcribe raises; 500.
TranscribeRaises(r) ==
    /\ r.pc = "transcribing"
    /\ reqs' = Replace(r, [r EXCEPT !.pc = "finally", !.transcribe = <<"raise">>,
                                    !.response = Internal("transcribe")])
    /\ UNCHANGED <<shared, files, counts, received, twin>>

\* `if temp_audio_path and os.path.exists(temp_audio_path)`, app.py:97
MustRemove(r) == r.temp_audio_path # NoPath /\ r.temp_audio_path \in files

\* transcribe_audio, app.py:97-100: os.remove deletes the file.
RemoveOk(r) ==
    /\ r.pc = "finally"
    /\ MustRemove(r)
    /\ files' = files \ {r.temp_audio_path}
    /\ reqs' = Replace(r, [r EXCEPT !.pc = "done", !.remove = "ok"])
    /\ UNCHANGED <<shared, counts, received, twin>>

\* (a removal whose failure replaces the answer: the change C13 is tested
\* against)
RemoveRaisesSurfaces(r) ==
    /\ r.pc = "finally"
    /\ r.temp_audio_path # NoPath /\ r.temp_audio_path \in files
    /\ reqs' = (reqs (-) SetToBag({r})) (+)
                  SetToBag({[r EXCEPT !.pc = "done", !.remove = "raise",
                                      !.response = [status |-> 500,
                                                    error |-> "internal error",
                                                    about |-> "remove"]]})
    /\ UNCHANGED <<loaded_models, model_lock, nextInst, files, loadCalls,
                   loadOk, loadFail, returned, lastCalls, received, twin>>

\* transcribe_audio, app.py:99-102: os.remove raises OSError; it is logged.
RemoveRaises(r) ==
    /\ r.pc = "finally"
    /\ MustRemove(r)
    /\ reqs' = Replace(r, [r EXCEPT !.pc = "done", !.remove = "raise"])
    /\ UNCHANGED <<shared, files, counts, received, twin>>

\* transcribe_audio, app.py:96-97: nothing to remove.
SkipRemove(r) ==
    /\ r.pc = "finally"
    /\ ~MustRemove(r)
    /\ reqs' = Replace(r, [r EXCEPT !.pc = "done", !.remove = "skipped"])
    /\ UNCHANGED <<shared, files, counts, received, twin>>

\* (a health check that waits for the lock: the change C15 is tested
\* against)
HealthCheckGuarded ==
    /\ model_lock = FALSE
    /\ BagCardinality(reqs) < NumThreads
    /\ received < MaxRequests
    /\ received' = received + 1
    /\ reqs' = reqs (+) SetToBag({
          [NewRequest(FormWithout) EXCEPT
              !.pc = "health_done",
              !.response = [status |-> 200, body |-> "healthy"]]})
    /\ UNCHANGED <<loaded_models, model_lock, nextInst, files, loadCalls,
                   loadOk, loadFail, returned, lastCalls, twin>>

\* health_check, app.py:104-106
HealthCheck ==
    /\ ThreadFree
    /\ received < MaxRequests
    /\ received' = received + 1
    /\ reqs' = reqs (+) SetToBag({
          [NewRequest(FormWithout) EXCEPT
              !.pc = "health_done",
              !.response = [status |-> 200, body |-> "healthy"]]})
    /\ UNCHANGED <<shared, files, counts, twin>>

\* The response leaves; the worker thread is free for the next request.
Respond(r) ==
    /\ r.pc \in {"done", "health_done"}
    /\ reqs' = reqs (-) SetToBag({r})
    /\ UNCHANGED <<shared, files, counts, received, twin>>

\* The steps of the /transcribe requests in progress.
Steps ==
    \/ \E r \in Reqs : Acquire(r)
    \/ \E r \in Reqs : CacheHit(r)
    \/ \E r \in Reqs : StartLoad(r)
    \/ \E r \in Reqs : LoadSucceeds(r)
    \/ \E r \in Reqs : LoadRaises(r)
    \/ \E r \in Reqs : \E u \in Uploads : ModelUnavailable(r, u)
    \/ \E r \in Reqs : \E u \in Uploads : ReadUpload(r, u)
    \/ \E r \in Reqs : SaveOk(r)
    \/ \E r \in Reqs : SaveRaises(r)
    \/ \E r \in Reqs : \E text \in Texts : TranscribeOk(r, text)
    \/ \E r \in Reqs : TranscribeRaises(r)
    \/ \E r \in Reqs : RemoveOk(r)
    \/ \E r \in Reqs : RemoveRaises(r)
    \/ \E r \in Reqs : SkipRemove(r)

Next ==
    \/ \E f \in Forms : Receive(f)
    \/ HealthCheck
    \/ Steps
    \/ \E r \in Reqs : Respond(r)

Spec == Init /\ [][Next]_vars

\* ---------------------------------------------------------- fair scheduling
\* Every thread that can run does run: a thread waiting at `with model_lock`
\* gets the lock when it is free again and again (a fair guard), every call
\* of whisper.load_model, audio_file.save, model.transcribe and os.remove
\* returns or raises, and every straight-line stretch of the handlers and
\* the sending of the answer are carried out.  No request needs to arrive.
Fairness ==
    /\ SF_vars(\E r \in Reqs : Acquire(r))
    /\ WF_vars(\E r \in Reqs : CacheHit(r) \/ StartLoad(r))
    /\ WF_vars(\E r \in Reqs : LoadSucceeds(r) \/ LoadRaises(r))
    /\ WF_vars(\E r \in Reqs : \E u \in Uploads :
                  ModelUnavailable(r, u) \/ ReadUpload(r, u))
    /\ WF_vars(\E r \in Reqs : SaveOk(r) \/ SaveRaises(r))
    /\ WF_vars(\E r \in Reqs :
                  TranscribeRaises(r) \/ \E text \in Texts : TranscribeOk(r, text))
    /\ WF_vars(\E r \in Reqs : RemoveOk(r) \/ RemoveRaises(r) \/ SkipRemove(r))
    /\ WF_vars(\E r \in Reqs : Respond(r))

SpecFair == Init /\ [][Next]_vars /\ Fairness

\* ------------------------------------------------ concurrent first requests
\* NumThreads requests for one identifier, all received before any of them
\* has called load_whisper_model, on an empty mapping.
RECURSIVE Burst(_, _)
Burst(fs, n) ==
    IF n = 0 THEN EmptyBag
    ELSE Burst(fs, n - 1) (+) SetToBag({Selected(fs[n])})

FormsFor(m) ==
    {f \in Forms : SelectModel(FormGet(f, "model_name", DEFAULT_MODEL)) = m}

BurstInit ==
    /\ loaded_models = <<>>
    /\ model_lock = Unlocked
    /\ nextInst = 1
    /\ files = {}
    /\ \E m \in Tracked : \E fs \in [1..NumThreads -> FormsFor(m)] :
          reqs = Burst(fs, NumThreads)
    /\ loadCalls = [m \in Tracked |-> 0]
    /\ loadOk = [m \in Tracked |-> 0]
    /\ loadFail = [m \in Tracked |-> 0]
    /\ returned = [m \in Tracked |-> {}]
    /\ lastCalls = [m \in Tracked |-> <<NoRecord, NoRecord>>]
    /\ received = NumThreads
    /\ twin = NoTwin

BurstNext ==
    \/ Steps
    \/ \E r \in Reqs : Respond(r)

SpecBurst == BurstInit /\ [][BurstNext]_vars

\* ---------------------------------------------------------- paired requests
\* Two requests are run one after the other from the same state: the first
\* names a model outside the allow-list, the second names the default.  The
\* state is put back in between, so that the second meets what the first
\* met.

\* The mappings the service can hold over the tracked identifiers, with the
\* identity the next loaded instance gets.
StartStates ==
    {[reg |-> <<>>, inst |-> 1]}
    \cup {[reg |-> Store(<<>>, m, 1), inst |-> 2] : m \in Tracked}
    \cup {[reg |-> Store(Store(<<>>, p[1], 1), p[2], 2), inst |-> 3] :
             p \in {q \in Tracked \X Tracked : q[1] # q[2]}}

\* The histories of a service whose mapping is reg, each entry loaded by one
\* call.
HistoryOf(reg) ==
    [loadCalls |-> [m \in Tracked |-> IF m \in DOMAIN reg THEN 1 ELSE 0],
     loadOk |-> [m \in Tracked |-> IF m \in DOMAIN reg THEN 1 ELSE 0],
     loadFail |-> [m \in Tracked |-> 0],
     returned |-> [m \in Tracked |-> IF m \in DOMAIN reg THEN {reg[m]} ELSE {}],
     lastCalls |->
        [m \in Tracked |->
            IF m \in DOMAIN reg
            THEN <<NoRecord, [load |-> "ok", inst |-> reg[m], invoked |-> 1,
                              changed |-> TRUE]>>
            ELSE <<NoRecord, NoRecord>>]]

TwinInit ==
    /\ \E st \in StartStates :
          /\ loaded_models = st.reg
          /\ nextInst = st.inst
          /\ twin = [reg |-> st.reg, inst |-> st.inst, first |-> <<>>]
          /\ loadCalls = HistoryOf(st.reg).loadCalls
          /\ loadOk = HistoryOf(st.reg).loadOk
          /\ loadFail = HistoryOf(st.reg).loadFail
          /\ returned = HistoryOf(st.reg).returned
          /\ lastCalls = HistoryOf(st.reg).lastCalls
    /\ model_lock = Unlocked
    /\ files = {}
    /\ reqs = EmptyBag
    /\ received = 0

\* The first request: model_name is not in the allow-list.
TwinFirst ==
    /\ received = 0
    /\ \E f \in Forms :
          /\ "model_name" \in DOMAIN f
          /\ f["model_name"] \notin ALLOWED_MODELS
          /\ Receive(f)

\* The first request is answered: its outcome is kept and the state it
\* started from is put back.
TwinSwitch ==
    /\ twin.first = <<>>
    /\ \E r \in Reqs :
          /\ r.pc = "done"
          /\ twin' = [twin EXCEPT !.first = <<[req |-> r, reg |-> loaded_models]>>]
    /\ reqs' = EmptyBag
    /\ loaded_models' = twin.reg
    /\ nextInst' = twin.inst
    /\ files' = {}
    /\ loadCalls' = HistoryOf(twin.reg).loadCalls
    /\ loadOk' = HistoryOf(twin.reg).loadOk
    /\ loadFail' = HistoryOf(twin.reg).loadFail
    /\ returned' = HistoryOf(twin.reg).returned
    /\ lastCalls' = HistoryOf(twin.reg).lastCalls
    /\ UNCHANGED <<model_lock, received>>

\* The second request: model_name is the default identifier.
TwinSecond ==
    /\ received = 1
    /\ twin.first # <<>>
    /\ Receive(FormWith(DEFAULT_MODEL))

TwinNext ==
    \/ TwinFirst
    \/ TwinSwitch
    \/ TwinSecond
    \/ Steps

SpecTwin == TwinInit /\ [][TwinNext]_vars

\* ------------------------------------------------------------- warm service
\* The service after it has served requests that loaded one identifier: the
\* mapping holds that identifier, no request is in progress, and the
\* histories are those of the one call that loaded it.
WarmStates == {st \in StartStates : Cardinality(DOMAIN st.reg) = 1}

WarmInit ==
    /\ \E st \in WarmStates :
          /\ loaded_models = st.reg
          /\ nextInst = st.inst
          /\ loadCalls = HistoryOf(st.reg).loadCalls
          /\ loadOk = HistoryOf(st.reg).loadOk
          /\ loadFail = HistoryOf(st.reg).loadFail
          /\ returned = HistoryOf(st.reg).returned
          /\ lastCalls = HistoryOf(st.reg).lastCalls
    /\ model_lock = Unlocked
    /\ files = {}
    /\ reqs = EmptyBag
    /\ received = 0
    /\ twin = NoTwin

SpecWarm == WarmInit /\ [][Next]_vars

\* ===========================================================================
\* Properties
\* ===========================================================================
Calls(m) == lastCalls[m]
Done(r) == r.pc = "done"
\* The request has returned from load_whisper_model.
PastLoad(r) == r.pc \in {"returned", "saving", "transcribing", "finally", "done"}
\* The request has no audio_file part, or one with an empty filename.
BadUpload(r) ==
    /\ r.upload # Unread
    /\ \/ "audio_file" \notin DOMAIN r.upload
       \/ r.upload["audio_file"].filename = <<>>

\* C1: for each identifier whisper.load_model completes successfully at most
\* once, every instance load_whisper_model ever returned for it is that one
\* instance, and every request holding an instance holds the one the mapping
\* has for its identifier.
C1_OneInstancePerIdentifier ==
    /\ \A m \in Tracked :
          /\ loadOk[m] <= 1
          /\ Cardinality(returned[m]) <= 1
          /\ returned[m] # {} => InCache(m) /\ returned[m] = {loaded_models[m]}
    /\ \A r \in Reqs :
          PastLoad(r) /\ r.model # None =>
              /\ InCache(r.actual_model_name)
              /\ r.model = loaded_models[r.actual_model_name]

\* Two requests in progress hold the same instance of one identifier, one
\* call having loaded it and the next having found it cached.
C1_Witness ==
    \E r1 \in Reqs : \E r2 \in Reqs :
        /\ r1.pc = "returned" /\ r2.pc = "transcribing"
        /\ r1.actual_model_name = r2.actual_model_name
        /\ r1.model # None /\ r1.model = r2.model
        /\ loadCalls[r1.actual_model_name] = 1

\* C2: (the claim) with NumThreads concurrent first requests for one
\* identifier, whisper.load_model is invoked once in all, and once it has
\* raised no call receives an instance and the mapping has no entry.
C2_OneInvocationForAll ==
    \A m \in Tracked :
        /\ loadCalls[m] <= 1
        /\ loadFail[m] >= 1 => returned[m] = {} /\ ~InCache(m)

\* C2, amended: with NumThreads concurrent first requests for one
\* identifier, whisper.load_model succeeds at most once and is invoked once
\* more only after each failure; the calls that receive an instance all
\* receive the same one, a call receives None only when its own invocation
\* raised, and the mapping has the entry exactly when an invocation
\* succeeded.
C2_OneSuccessForAll ==
    /\ \A m \in Tracked :
          /\ loadOk[m] <= 1
          /\ loadCalls[m] <= loadFail[m] + 1
          /\ Cardinality(returned[m]) <= 1
          /\ InCache(m) <=> loadOk[m] = 1
          /\ InCache(m) => returned[m] = {loaded_models[m]}
    /\ \A r \in Reqs :
          PastLoad(r) =>
              /\ r.model = None <=> r.raised
              /\ r.model # None => r.model \in returned[r.actual_model_name]

\* Of the concurrent first requests, one got None from a load that raised
\* and another an instance from the load it made next.
C2_Witness ==
    \E r1 \in Reqs : \E r2 \in Reqs :
        /\ r1.pc = "returned" /\ r1.raised /\ r1.model = None
        /\ r2.pc = "returned" /\ r2.model # None
        /\ r1.actual_model_name = r2.actual_model_name
        /\ loadCalls[r1.actual_model_name] = 2

\* C3: a call in which whisper.load_model raised returned None, and the
\* mapping it left is the mapping it found when it took the lock; the
\* request went on in the handler with model None.
C3_FailureLeavesMapping ==
    /\ \A m \in Tracked : \A i \in 1..2 :
          Calls(m)[i].load = "raise" =>
              /\ Calls(m)[i].inst = None
              /\ ~Calls(m)[i].changed
    /\ \A r \in Reqs :
          r.raised => /\ PastLoad(r)
                      /\ r.model = None
                      /\ r.pc \in {"returned", "done"}
    /\ \A m \in DOMAIN loaded_models : loaded_models[m] # None

\* A call has returned the failure value while another identifier was cached.
C3_Witness ==
    \E m \in Tracked :
        /\ Calls(m)[2].load = "raise"
        /\ DOMAIN loaded_models # {}
        /\ \E r \in Reqs : r.raised /\ r.pc = "returned"

\* C4: a call invokes whisper.load_model at most once; the call for an
\* identifier that follows a failed call for it invokes the engine again
\* (it is never served from the mapping), and when that load succeeds the
\* identifier is in the mapping, bound to the instance the call returned.
C4_FailureNotCached ==
    /\ \A r \in Reqs : r.invoked <= 1
    /\ \A m \in Tracked :
          /\ \A i \in 1..2 : Calls(m)[i].invoked <= 1
          /\ Calls(m)[1].load = "raise" =>
                /\ Calls(m)[2].load \in {"ok", "raise"}
                /\ Calls(m)[2].invoked = 1
                /\ Calls(m)[2].load = "ok" =>
                      /\ InCache(m)
                      /\ Calls(m)[2].inst # None
                      /\ loaded_models[m] = Calls(m)[2].inst
    /\ \A m \in Tracked : loadCalls[m] >= loadFail[m] + loadOk[m]

\* A call for an identifier failed and the next call for it loaded it.
C4_Witness ==
    \E m \in Tracked :
        /\ Calls(m)[1].load = "raise"
        /\ Calls(m)[2].load = "ok"
        /\ loadCalls[m] = 2

\* C5: of two calls in sequence for one identifier, the first returning an
\* instance, the second returns the same instance, invokes the engine not
\* at all, and leaves the mapping as it found it; the engine is invoked
\* once over the two calls when the first call found no entry (and not at
\* all when the first was served from the mapping).
C5_SecondCallCached ==
    \A m \in Tracked :
        Calls(m)[1].inst # None /\ Calls(m)[2].load # "none" =>
            /\ Calls(m)[2].inst = Calls(m)[1].inst
            /\ Calls(m)[2].load = "hit"
            /\ Calls(m)[2].invoked = 0
            /\ ~Calls(m)[2].changed
            /\ Calls(m)[1].invoked + Calls(m)[2].invoked =
                  IF Calls(m)[1].load = "ok" THEN 1 ELSE 0

\* Two calls in sequence: the first, on an empty mapping, loaded the
\* identifier, and the second has returned.
C5_Witness ==
    \E m \in Tracked :
        /\ Calls(m)[1].load = "ok"
        /\ Calls(m)[1].invoked = 1
        /\ Calls(m)[2].load = "hit"
        /\ received = 2
        /\ reqs = EmptyBag

\* C6: in every /transcribe request, at every point after the selection,
\* the selected identifier is "base" when model_name is absent, "base" when
\* it is not allow-listed, and model_name itself when it is; the instance the
\* request got is the mapping's instance for the selected identifier, and
\* a 200 response reports the selected identifier as model_used.
C6_SelectedIdentifier ==
    \A r \in Reqs :
        r.pc # "health_done" =>
            /\ "model_name" \notin DOMAIN r.form =>
                  r.actual_model_name = "base"
            /\ "model_name" \in DOMAIN r.form =>
                  /\ r.form["model_name"] \notin ALLOWED_MODELS =>
                        r.actual_model_name = "base"
                  /\ r.form["model_name"] \in ALLOWED_MODELS =>
                        r.actual_model_name = r.form["model_name"]
            /\ PastLoad(r) /\ r.model # None =>
                  /\ InCache(r.actual_model_name)
                  /\ loaded_models[r.actual_model_name] = r.model
            /\ r.response.status = 200 =>
                  /\ r.response.model_used = r.actual_model_name
                  /\ r.response.model_used \in ALLOWED_MODELS

\* A 200 response to a request that named a model outside the allow-list.
C6_Witness ==
    \E r \in Reqs :
        /\ Done(r)
        /\ r.response.status = 200
        /\ "model_name" \in DOMAIN r.form
        /\ r.form["model_name"] \notin ALLOWED_MODELS
        /\ r.response.model_used = DEFAULT_MODEL

\* The two requests carry the same upload and met the same outcomes of
\* the load, of saving the upload, of the transcription and of the removal.
SameCircumstances(a, b) ==
    /\ a.upload = b.upload
    /\ a.raised = b.raised
    /\ a.save = b.save
    /\ a.transcribe = b.transcribe
    /\ a.remove = b.remove

\* C7: a request naming the default identifier, run from the state a
\* request naming a model outside the allow-list was run from, with the same
\* upload and the same outcomes, gets the same response and leaves the same
\* mapping; the model_used of a 200 response is the default.
C7_InvalidNameAsDefault ==
    \A r \in Reqs :
        twin.first # <<>> /\ Done(r)
            /\ SameCircumstances(r, twin.first[1].req) =>
                /\ r.response = twin.first[1].req.response
                /\ loaded_models = twin.first[1].reg
                /\ r.model = twin.first[1].req.model
                /\ twin.first[1].req.response.status = 200 =>
                      twin.first[1].req.response.model_used = DEFAULT_MODEL

\* Both requests were answered 200 after a load on a mapping without the
\* default identifier.
C7_Witness ==
    /\ twin.first # <<>>
    /\ DEFAULT_MODEL \notin DOMAIN twin.reg
    /\ \E r \in Reqs :
          /\ Done(r)
          /\ SameCircumstances(r, twin.first[1].req)
          /\ r.response.status = 200
          /\ r.form = FormWith(DEFAULT_MODEL)
          /\ twin.first[1].req.form # r.form

\* C8: (the claim) when the response of a request for which the temporary
\* file was created is about to leave, the file no longer exists, unless
\* os.remove itself raised.
C8_TempFileRemoved ==
    \A r \in Reqs :
        Done(r) /\ r.created # NoPath /\ r.remove # "raise" =>
            r.created \notin files

\* C9: (the claim) a request without an audio_file part, or with an empty
\* filename, is answered 400.
C9_BadUploadIs400 ==
    \A r \in Reqs : Done(r) /\ BadUpload(r) => r.response.status = 400

\* C9, amended: such a request is answered 400 with an error body when
\* load_whisper_model returned an instance, and 503 when it returned None.
C9_BadUploadIs400Or503 ==
    \A r \in Reqs :
        Done(r) /\ BadUpload(r) =>
            /\ r.model # None =>
                  /\ r.response.status = 400
                  /\ r.response.error \in {"no audio file part", "empty filename"}
                  /\ r.created = NoPath
            /\ r.model = None =>
                  /\ r.response.status = 503
                  /\ r.raised

\* A request with an empty filename, answered 400.
C9_Witness ==
    \E r \in Reqs :
        /\ Done(r)
        /\ "audio_file" \in DOMAIN r.upload
        /\ r.upload["audio_file"].filename = <<>>
        /\ r.response.status = 400

\* C10: (the claim) a 503 answer means that a load of the default
\* identifier failed during the request.
C10_503MeansDefaultFailed ==
    \A r \in Reqs :
        Done(r) /\ r.response.status = 503 =>
            r.raised /\ r.actual_model_name = DEFAULT_MODEL

\* C10, amended: a 503 answer means that the one load the request made,
\* that of its selected identifier, failed; the selected identifier is the
\* default only when model_name is absent, not allow-listed, or the default,
\* and no second load is attempted.
C10_503MeansSelectedFailed ==
    \A r \in Reqs :
        Done(r) /\ r.response.status = 503 =>
            /\ r.raised
            /\ r.model = None
            /\ r.response.about = r.actual_model_name
            /\ loadFail[r.actual_model_name] >= 1
            /\ r.created = NoPath

\* A 503 answer to a request for "tiny", the default never having been
\* loaded or tried.
C10_Witness ==
    \E r \in Reqs :
        /\ Done(r)
        /\ r.response.status = 503
        /\ r.actual_model_name = "tiny"
        /\ loadCalls[DEFAULT_MODEL] = 0

\* The upload of the request has an audio_file part with a filename.
GoodUpload(r) ==
    /\ "audio_file" \in DOMAIN r.upload
    /\ r.upload["audio_file"].filename # <<>>

\* C11: a request for which load_whisper_model returned None goes from the
\* return straight to its answer, which is 503; no temporary file is ever
\* created for it, nothing is saved, and model.transcribe is never invoked
\* for it.
C11_NoModelNoFile ==
    \A r \in Reqs :
        PastLoad(r) /\ r.model = None =>
            /\ r.pc \in {"returned", "done"}
            /\ r.created = NoPath
            /\ r.temp_audio_path = NoPath
            /\ r.save = "none"
            /\ r.transcribe = <<"none">>
            /\ r.remove = "none"
            /\ Done(r) => r.response.status = 503
            /\ ~Done(r) => r.response = NoResponse

\* A 503 answer to a request that carried an audio part with a filename,
\* its load having raised.
C11_Witness ==
    \E r \in Reqs :
        /\ Done(r)
        /\ r.raised /\ r.model = None
        /\ GoodUpload(r)
        /\ r.response.status = 503
        /\ files = {}

\* C12: for a request that got a model and carried an audio part with a
\* filename, an exception of audio_file.save or of model.transcribe gives a
\* 500 answer with an error body; the answer is 200, with the text of the
\* transcription and the selected identifier as model_used, exactly when
\* both have completed without raising.
C12_RaiseIs500 ==
    \A r \in Reqs :
        Done(r) /\ r.model # None /\ GoodUpload(r) =>
            /\ r.response.status \in {200, 500}
            /\ r.save = "raise" \/ r.transcribe = <<"raise">> =>
                  /\ r.response.status = 500
                  /\ DOMAIN r.response = {"status", "error", "about"}
                  /\ r.response.error = "internal error"
            /\ r.response.status = 200 <=>
                  r.save = "ok" /\ r.transcribe[1] = "ok"
            /\ r.save = "ok" /\ r.transcribe[1] = "ok" =>
                  /\ DOMAIN r.response = {"status", "text", "model_used"}
                  /\ r.response.text = r.transcribe[2]
                  /\ r.response.model_used = r.actual_model_name

\* Two answered requests in one state: a 500 after model.transcribe raised
\* and a 200 after it returned.
C12_Witness ==
    \E r1 \in Reqs : \E r2 \in Reqs :
        /\ Done(r1) /\ Done(r2)
        /\ r1.save = "ok" /\ r1.transcribe = <<"raise">>
        /\ r1.response.status = 500
        /\ r2.save = "ok" /\ r2.transcribe[1] = "ok"
        /\ r2.response.status = 200

\* The answer of a request is the one its try block determined: 200 with the
\* text after a transcription that returned, 500 otherwise.
AnswerBeforeCleanup(r) ==
    IF r.transcribe[1] = "ok"
    THEN /\ r.response.status = 200
         /\ r.response.text = r.transcribe[2]
         /\ r.response.model_used = r.actual_model_name
    ELSE /\ r.response.status = 500
         /\ r.response.error = "internal error"

\* C13: the finally block does not change the answer.  Every request that
\* leaves the finally block in a step is, after the step, the same request
\* with the same answer, whether os.remove succeeded, raised or was skipped;
\* and the answer of a request in or past the finally block is the one the
\* try block determined.
C13_CleanupKeepsResponse ==
    /\ [](\A r \in Reqs :
             r.pc = "finally" \/ (Done(r) /\ r.remove # "none") =>
                 AnswerBeforeCleanup(r))
    /\ [][\A r \in Reqs :
             r.pc = "finally" =>
                 \/ CopiesIn(r, reqs') >= CopiesIn(r, reqs)
                 \/ \E q \in BagToSet(reqs') :
                       /\ q.pc = "done"
                       /\ q.remove \in {"ok", "raise", "skipped"}
                       /\ q.response = r.response
                       /\ [q EXCEPT !.pc = r.pc, !.remove = r.remove] = r]_vars

\* os.remove raised for a request whose transcription had returned, and
\* the answer is the 200 with that text; the file is still there.
C13_Witness ==
    \E r \in Reqs :
        /\ Done(r)
        /\ r.remove = "raise"
        /\ r.transcribe = <<"ok", "hello">>
        /\ r.response = Transcribed("hello", r.actual_model_name)
        /\ r.created \in files

\* The requests inside `with model_lock`.
InsideLock == {r \in Reqs : r.pc \in {"locked", "loading"}}

\* The lock is held exactly while one request is inside load_whisper_model's
\* with block, whichever way the others left it, and an answered /transcribe
\* request carries one of the four statuses.
C14_LockAndStatus ==
    /\ model_lock = Locked <=> InsideLock # {}
    /\ \A r \in InsideLock : CopiesIn(r, reqs) = 1 /\ InsideLock = {r}
    /\ \A r \in Reqs :
          /\ Done(r) => r.response.status \in {200, 400, 500, 503}
          /\ r.pc \notin {"done", "health_done"} => r.response.status \in {0, 200, 500}
          /\ r.pc \in {"start", "call_load", "locked", "loading", "returned",
                       "saving", "transcribing"} => r.response = NoResponse

\* C14: under fair scheduling, with every engine load and every
\* transcription returning or raising, every request is answered: whenever
\* requests are in progress, a moment comes when all of them have been
\* answered, and from some moment on none is left; whenever a request waits
\* at the guard, a moment comes when none waits.  The answer of a
\* /transcribe request has status 200, 400, 500 or 503, and the guard is
\* held exactly while a call is between the cache check and its return.
C14_EveryRequestAnswered ==
    /\ []C14_LockAndStatus
    /\ (reqs # EmptyBag) ~> (reqs = EmptyBag)
    /\ <>[](reqs = EmptyBag)
    /\ (\E r \in Reqs : r.pc = "call_load") ~>
          (model_lock = Unlocked /\ \A r \in Reqs : r.pc # "call_load")

\* All the requests received have been answered and the guard is free, a
\* load having raised and the next call having loaded the identifier.
C14_Witness ==
    /\ received = MaxRequests
    /\ reqs = EmptyBag
    /\ model_lock = Unlocked
    /\ \E m \in Tracked :
          /\ loadFail[m] = 1 /\ loadOk[m] = 1
          /\ Calls(m)[1].load = "raise"

\* The /health requests answered and not yet sent.
HealthAnswers(bag) == {r \in BagToSet(bag) : r.pc = "health_done"}

\* C15: a /health request is answered 200 with {"status": "healthy"}, and
\* it can be answered in every state in which a thread is free to take it,
\* whatever the mapping holds, whoever holds the lock and whatever loads
\* have failed; the step that answers it changes neither the lock nor the
\* mapping.
C15_HealthAlways200 ==
    /\ [](/\ \A r \in HealthAnswers(reqs) :
                r.response = [status |-> 200, body |-> "healthy"]
          /\ BagCardinality(reqs) < NumThreads /\ received < MaxRequests =>
                ENABLED HealthCheck)
    /\ [][(\E q \in HealthAnswers(reqs') : CopiesIn(q, reqs') > CopiesIn(q, reqs))
            => /\ loaded_models' = loaded_models
               /\ model_lock' = model_lock
               /\ files' = files]_vars

\* A /health request has its answer while another thread holds the lock in
\* whisper.load_model.
C15_Witness ==
    \E h \in Reqs : \E r \in Reqs :
        /\ h.pc = "health_done"
        /\ h.response.status = 200
        /\ r.pc = "loading"
        /\ model_lock = Locked

\* The requests whose thread is executing model.transcribe.
Transcribing == {r \in Reqs : r.pc = "transcribing"}

\* C16: a thread executing model.transcribe does not hold model_lock: the
\* lock is held only by a call between `with model_lock` and its return,
\* so with any number of transcriptions in progress and no such call the
\* lock is free, a request waiting to look up its identifier can take it,
\* and a request that has taken it and finds its identifier cached can
\* return.
C16_TranscribeOutsideLock ==
    /\ model_lock = Locked => InsideLock # {}
    /\ Transcribing # {} /\ InsideLock = {} =>
          /\ model_lock = Unlocked
          /\ \A q \in Reqs : q.pc = "call_load" => ENABLED Acquire(q)
    /\ Transcribing # {} =>
          \A q \in Reqs :
              q.pc = "locked" /\ q.actual_model_name \in DOMAIN loaded_models
                  => ENABLED CacheHit(q)

\* While one request is in model.transcribe, another has taken the lock
\* and found its identifier cached.
C16_Witness ==
    \E t \in Reqs : \E q \in Reqs :
        /\ t.pc = "transcribing"
        /\ q.pc = "locked"
        /\ q.actual_model_name \in DOMAIN loaded_models
        /\ model_lock = Locked

\* C17: one lock covers the cache check, the load and the insertion for all
\* identifiers: at most one call is between `with model_lock` and its
\* return, and while a call is in whisper.load_model for one identifier no
\* other request can take the lock, not even one whose identifier is
\* already in the mapping; each such request is still waiting after every
\* step taken while the load lasts.
C17_OneLockForAll ==
    /\ [](/\ \A r \in InsideLock : InsideLock = {r} /\ CopiesIn(r, reqs) = 1
          /\ InsideLock # {} => model_lock = Locked
          /\ \A r \in Reqs :
                r.pc = "loading" =>
                    \A q \in Reqs : q.pc = "call_load" => ~ENABLED Acquire(q))
    /\ [][(\E r \in Reqs : r.pc = "loading" /\ CopiesIn(r, reqs') = 1) =>
             \A q \in Reqs :
                 q.pc = "call_load" => CopiesIn(q, reqs') >= CopiesIn(q, reqs)]_vars

\* A call is loading one identifier while a request for another identifier,
\* which is in the mapping, waits for the lock.
C17_Witness ==
    \E r \in Reqs : \E q \in Reqs :
        /\ r.pc = "loading"
        /\ q.pc = "call_load"
        /\ q.actual_model_name # r.actual_model_name
        /\ q.actual_model_name \in DOMAIN loaded_models
        /\ r.actual_model_name \notin DOMAIN loaded_models

\* C18: the mapping only grows.  In every step every identifier of the
\* mapping stays in it, bound to the same instance; and a step that changes
\* the mapping is taken with the lock held, by a call that is in
\* whisper.load_model for an identifier the mapping does not have, and adds
\* that identifier, bound to the new instance, and nothing else.
C18_MappingOnlyGrows ==
    [][/\ \A m \in DOMAIN loaded_models :
             /\ m \in DOMAIN loaded_models'
             /\ loaded_models'[m] = loaded_models[m]
       /\ loaded_models' # loaded_models =>
             /\ model_lock = Locked
             /\ \E r \in Reqs :
                   /\ r.pc = "loading"
                   /\ r.actual_model_name \notin DOMAIN loaded_models
                   /\ DOMAIN loaded_models' =
                         DOMAIN loaded_models \cup {r.actual_model_name}
                   /\ loaded_models'[r.actual_model_name] = nextInst
                   /\ loaded_models'[r.actual_model_name] # None
                   /\ loadOk'[r.actual_model_name] =
                         loadOk[r.actual_model_name] + 1]_vars

\* The mapping has grown twice: it holds two identifiers, each bound to the
\* instance loaded for it.
C18_Witness ==
    /\ DOMAIN loaded_models = {"tiny", "base"}
    /\ loaded_models["tiny"] # loaded_models["base"]
    /\ \A m \in DOMAIN loaded_models : returned[m] = {loaded_models[m]}

\* C19: every key of loaded_models is a member of ALLOWED_MODELS, whatever
\* model_name the callers send: the handler passes load_whisper_model only
\* members of the allow-list, the default being one of them.
C19_KeysAllowed ==
    /\ DOMAIN loaded_models \subseteq ALLOWED_MODELS
    /\ DEFAULT_MODEL \in ALLOWED_MODELS
    /\ \A r \in Reqs :
          r.pc \notin {"start", "health_done"} =>
              r.actual_model_name \in ALLOWED_MODELS

\* The one request received sent a model_name outside the allow-list, and
\* its call has loaded and stored the default identifier.
C19_Witness ==
    /\ received = 1
    /\ DOMAIN loaded_models = {DEFAULT_MODEL}
    /\ \E r \in Reqs :
          /\ r.pc = "returned"
          /\ r.model # None
          /\ "model_name" \in DOMAIN r.form
          /\ r.form["model_name"] \notin ALLOWED_MODELS

\* C20: the model is resolved before the upload is validated.  A request
\* answered 400 has had an instance returned by load_whisper_model, and its
\* selected identifier is in the mapping, bound to that instance, when the
\* answer leaves; a request whose load raised is answered 503 also when it
\* has no audio part or an empty filename.
C20_ModelBeforeUpload ==
    \A r \in Reqs :
        /\ Done(r) /\ r.response.status = 400 =>
              /\ r.model # None
              /\ ~r.raised
              /\ r.actual_model_name \in DOMAIN loaded_models
              /\ loaded_models[r.actual_model_name] = r.model
              /\ loadOk[r.actual_model_name] = 1
              /\ ~GoodUpload(r)
        /\ Done(r) /\ r.raised /\ ~GoodUpload(r) =>
              /\ r.response.status = 503
              /\ r.model = None

\* A request without an audio part, the only one received, has made
\* whisper.load_model load its identifier and is answered 400.
C20_Witness ==
    /\ received = 1
    /\ \E r \in Reqs :
          /\ Done(r)
          /\ r.response = NoPart
          /\ "audio_file" \notin DOMAIN r.upload
          /\ loadCalls[r.actual_model_name] = 1
          /\ DOMAIN loaded_models = {r.actual_model_name}
====
